---- MODULE Spec2Model ----
\* Bank churn prediction app (src/app.py): a Streamlit script that is rerun
\* from top to bottom on every user event.  The model covers the cached model
\* load, the feature encoder, the prediction path with its risk heuristics
\* and recommendations, and what each run renders.
EXTENDS Integers, Sequences, FiniteSets, TLC

VARIABLES
    widgets,          \* session widget values (the customer profile)
    artifact,         \* the model file on disk: "present", "missing", "corrupt"
    cache,            \* st.cache_resource entry of load_model: "empty", "None" or a handle
    loadCalls,        \* how many times the body of load_model has run
    pc,               \* position of the current script run
    button,           \* st.sidebar.button("Predict Churn") of the current run
    model,            \* local `model` of main()
    feature_vector,   \* local `feature_vector`
    prediction,       \* local `prediction`
    prediction_proba, \* local `prediction_proba[1] * 100`
    risk_factors,     \* local `risk_factors`
    recommendations,  \* local `recommendations`
    out,              \* elements rendered by the current run, in order
    trace,            \* core steps the current run has executed, in order
    loadFailed,       \* how joblib.load failed in the current run, "no" if it did not
    last              \* results of the immediately preceding prediction run

vars == <<widgets, artifact, cache, loadCalls, pc, button, model, feature_vector,
          prediction, prediction_proba, risk_factors, recommendations, out, trace,
          loadFailed, last>>

\* ------------------------------------------------------------------ bounds

\* Cap on the executions of load_model's body that the model follows.
MaxLoadCalls == 2

\* ------------------------------------------------------- program constants

HighBalanceThreshold == 100000
HighAgeRisk == 50
LowTenureRisk == 2
LowCreditRisk == 600
ChurnLabel == 1

\* ------------------------------------------------------------------ inputs

\* Widget defaults of the sidebar (value=..., index=..., first option).
DefaultWidgets ==
    [credit_score |-> 650, gender |-> "Male", age |-> 35, tenure |-> 5,
     balance |-> 50000, products_number |-> 2, credit_card |-> TRUE,
     active_member |-> TRUE, estimated_salary |-> 60000, country |-> "France"]

WidgetNames == DOMAIN DefaultWidgets

\* Values a user gives each widget in the interactive specification.  Gender
\* and salary stay at their defaults there: they reach the encoder only, which
\* SpecCore applies to every combination of CoreProfiles.
SessionChoices ==
    [credit_score |-> {550, 650}, gender |-> {"Male"}, age |-> {35, 55},
     tenure |-> {1, 5}, balance |-> {0, 50000}, products_number |-> {1, 2},
     credit_card |-> BOOLEAN, active_member |-> BOOLEAN,
     estimated_salary |-> {60000}, country |-> {"France", "Germany", "Spain"}]

\* Profiles the encoder and the risk rules are applied to: every threshold of
\* the code from both sides, and the values of the two documented scenarios.
CoreProfiles ==
    [credit_score : {550, 599, 600, 650}, gender : {"Male", "Female"},
     age : {30, 31, 35, 40, 41, 50, 51, 55, 60, 61}, tenure : {0, 1, 2, 3, 5, 7, 8},
     balance : {0, 50000, 100000, 100001}, products_number : {1, 2, 4},
     credit_card : BOOLEAN, active_member : BOOLEAN,
     estimated_salary : {0, 60000}, country : {"France", "Germany", "Spain"}]

\* Stand-ins for the pickled classifier: each a deterministic function of the
\* feature vector; two of them raise inside the model call.
Classifiers == {"clfA", "clfB", "failPredict", "failProba"}

\* ------------------------------------------------------------- arithmetic

RECURSIVE GCD(_, _)
GCD(a, b) == IF b = 0 THEN a ELSE GCD(b, a % b)

\* A number of the feature vector, as an exact fraction in lowest terms.
Whole(n) == [num |-> n, den |-> 1]
Div(a, b) == LET g == GCD(a, b) IN [num |-> a \div g, den |-> b \div g]
Bit(b) == IF b THEN Whole(1) ELSE Whole(0)

\* ---------------------------------------------------------------- encoder

Field(n, v) == [name |-> n, value |-> v]

\* The dict built at main() lines 128-139: the widget values under the same keys.
InputData(w) ==
    [credit_score |-> w.credit_score, gender |-> w.gender, age |-> w.age,
     tenure |-> w.tenure, balance |-> w.balance,
     products_number |-> w.products_number, credit_card |-> w.credit_card,
     active_member |-> w.active_member, estimated_salary |-> w.estimated_salary,
     country |-> w.country]

\* Mutant: the ratio taken the wrong way round.
Mut_SalaryBalanceRatio(d) ==
    IF d.estimated_salary > 0 THEN Div(d.estimated_salary, d.balance) ELSE Whole(0)

BalanceSalaryRatio(d) ==
    IF d.estimated_salary > 0 THEN Div(d.balance, d.estimated_salary) ELSE Whole(0)

\* Mutant: the tenure guard dropped.
Mut_ProductsPerYearUnguarded(d) == Div(d.products_number, d.tenure)

ProductsPerYear(d) ==
    IF d.tenure > 0 THEN Div(d.products_number, d.tenure) ELSE Whole(0)

\* Mutant: only the age group that is set gets a column, as get_dummies on
\* the single row would give.
Mut_AgeGroupsDummies(d) ==
    SelectSeq(<< Field("age_group_31-40", Bit(31 <= d.age /\ d.age <= 40)),
                 Field("age_group_41-50", Bit(41 <= d.age /\ d.age <= 50)),
                 Field("age_group_51-60", Bit(51 <= d.age /\ d.age <= 60)),
                 Field("age_group_60+", Bit(d.age > 60)) >>,
              LAMBDA f : f.value.num = 1)

AgeGroups(d) ==
    << Field("age_group_31-40", Bit(31 <= d.age /\ d.age <= 40)),
       Field("age_group_41-50", Bit(41 <= d.age /\ d.age <= 50)),
       Field("age_group_51-60", Bit(51 <= d.age /\ d.age <= 60)),
       Field("age_group_60+", Bit(d.age > 60)) >>

\* Mutant: the High group starts at 7, inside the Medium range.
Mut_TenureGroupsOverlap(d) ==
    << Field("tenure_group_Medium", Bit(3 <= d.tenure /\ d.tenure <= 7)),
       Field("tenure_group_High", Bit(d.tenure >= 7)) >>

TenureGroups(d) ==
    << Field("tenure_group_Medium", Bit(3 <= d.tenure /\ d.tenure <= 7)),
       Field("tenure_group_High", Bit(d.tenure > 7)) >>

CountryColumns(d) ==
    << Field("country_Germany", Bit(d.country = "Germany")),
       Field("country_Spain", Bit(d.country = "Spain")) >>

\* The one-row frame: the dict's items in insertion order.
create_feature_vector(d) ==
    << Field("credit_score", Whole(d.credit_score)),
       Field("gender", Bit(d.gender = "Male")),
       Field("age", Whole(d.age)),
       Field("tenure", Whole(d.tenure)),
       Field("balance", Whole(d.balance)),
       Field("products_number", Whole(d.products_number)),
       Field("credit_card", Bit(d.credit_card)),
       Field("active_member", Bit(d.active_member)),
       Field("estimated_salary", Whole(d.estimated_salary)) >>
    \o CountryColumns(d)
    \o << Field("balance_salary_ratio", BalanceSalaryRatio(d)),
          Field("high_balance", Bit(d.balance > HighBalanceThreshold)),
          Field("active_credit_combo", Bit(d.active_member /\ d.credit_card)),
          Field("products_per_year", ProductsPerYear(d)) >>
    \o AgeGroups(d)
    \o TenureGroups(d)

Columns(fv) == [i \in 1..Len(fv) |-> fv[i].name]
Get(fv, n) == LET i == CHOOSE j \in 1..Len(fv) : fv[j].name = n IN fv[i].value

\* ------------------------------------------------------------ risk factors

\* Mutant: the list is not reset, it carries the previous run's labels.
Mut_StaleRiskFactors == last.risk_factors

InitialRiskFactors == << >>

\* Mutant: the tenure rule off by one (tenure <= 2).
Mut_AssessRisk(w) ==
    LET r0 == << >>
        r1 == IF w.age > HighAgeRisk THEN Append(r0, "High age group") ELSE r0
        r2 == IF w.balance = 0 THEN Append(r1, "Zero balance") ELSE r1
        r3 == IF w.products_number = 1 THEN Append(r2, "Single product") ELSE r2
        r4 == IF ~w.active_member THEN Append(r3, "Inactive member") ELSE r3
        r5 == IF ~w.credit_card THEN Append(r4, "No credit card") ELSE r4
        r6 == IF w.tenure <= LowTenureRisk THEN Append(r5, "Low tenure") ELSE r5
        r7 == IF w.credit_score < LowCreditRisk THEN Append(r6, "Low credit score") ELSE r6
    IN  r7

AssessRisk(w) ==
    LET r0 == InitialRiskFactors
        r1 == IF w.age > HighAgeRisk THEN Append(r0, "High age group") ELSE r0
        r2 == IF w.balance = 0 THEN Append(r1, "Zero balance") ELSE r1
        r3 == IF w.products_number = 1 THEN Append(r2, "Single product") ELSE r2
        r4 == IF ~w.active_member THEN Append(r3, "Inactive member") ELSE r3
        r5 == IF ~w.credit_card THEN Append(r4, "No credit card") ELSE r4
        r6 == IF w.tenure < LowTenureRisk THEN Append(r5, "Low tenure") ELSE r5
        r7 == IF w.credit_score < LowCreditRisk THEN Append(r6, "Low credit score") ELSE r6
    IN  r7

\* --------------------------------------------------------- recommendations

\* Mutant: every non-zero label takes the retention list.
Mut_RecommendNonZero(p) ==
    IF p >= ChurnLabel
    THEN << "Offer personalized retention campaign",
            "Provide premium customer service",
            "Consider product bundle offers",
            "Implement targeted engagement strategies" >>
    ELSE << "Continue regular engagement",
            "Offer product upgrades",
            "Maintain service quality",
            "Monitor for any changes" >>

Recommend(p) ==
    IF p = ChurnLabel
    THEN << "Offer personalized retention campaign",
            "Provide premium customer service",
            "Consider product bundle offers",
            "Implement targeted engagement strategies" >>
    ELSE << "Continue regular engagement",
            "Offer product upgrades",
            "Maintain service quality",
            "Monitor for any changes" >>

\* -------------------------------------------------------------- classifier

\* model.predict(feature_vector) raises.
PredictRaises(h, fv) == h = "failPredict"

\* model.predict(feature_vector)[0]
Predict(h, fv) ==
    CASE h = "clfA" ->
            IF Get(fv, "age").num > 50 \/ Get(fv, "active_member").num = 0 THEN 1 ELSE 0
      [] h = "clfB" -> IF Get(fv, "credit_score").num < 600 THEN 2 ELSE 0
      [] OTHER -> 1

\* model.predict_proba(feature_vector) raises.
ProbaRaises(h, fv) == h = "failProba"

\* model.predict_proba(feature_vector)[0][1] * 100, to the whole percent
PredictProba(h, fv) ==
    CASE h = "clfA" -> IF Predict(h, fv) = 1 THEN 80 ELSE 20
      [] h = "clfB" -> 35 + Get(fv, "products_number").num
      [] OTHER -> 50

\* --------------------------------------------------------------- the script

\* Mutant: the recommendations written before the risk factors.
Mut_ScriptOrderSwapped ==
    << "encode", "predict", "predict_proba", "prediction_box", "profile_chart",
       "recommend", "risk", "gauge", "done" >>

\* The statements of the prediction branch of main(), in program order.
ScriptOrder ==
    << "encode", "predict", "predict_proba", "prediction_box", "profile_chart",
       "risk", "recommend", "gauge", "done" >>

After(p) == LET i == CHOOSE j \in 1..Len(ScriptOrder) : ScriptOrder[j] = p
            IN  ScriptOrder[i + 1]

Idle == pc \in {"done", "stopped", "crashed"}

NoLast ==
    [set |-> FALSE, profile |-> DefaultWidgets, model |-> "unset",
     feature_vector |-> << >>, prediction |-> -1, prediction_proba |-> -1,
     risk_factors |-> << >>, recommendations |-> << >>]

Snapshot ==
    [set |-> TRUE, profile |-> widgets, model |-> model,
     feature_vector |-> feature_vector, prediction |-> prediction,
     prediction_proba |-> prediction_proba, risk_factors |-> risk_factors,
     recommendations |-> recommendations]

\* A rerun starts main() afresh: new locals, an empty page with the header.
BeginRun ==
    /\ pc' = "load"
    /\ model' = "unset"
    /\ feature_vector' = << >>
    /\ prediction' = -1
    /\ prediction_proba' = -1
    /\ risk_factors' = << >>
    /\ recommendations' = << >>
    /\ out' = << "header" >>
    /\ trace' = << >>
    /\ loadFailed' = "no"

CanRun == cache # "empty" \/ loadCalls < MaxLoadCalls

Init ==
    /\ widgets = DefaultWidgets
    /\ artifact \in {"present", "missing", "corrupt"}
    /\ cache = "empty"
    /\ loadCalls = 0
    /\ pc = "load"
    /\ button = FALSE
    /\ model = "unset"
    /\ feature_vector = << >>
    /\ prediction = -1
    /\ prediction_proba = -1
    /\ risk_factors = << >>
    /\ recommendations = << >>
    /\ out = << "header" >>
    /\ trace = << >>
    /\ loadFailed = "no"
    /\ last = NoLast

\* The user edits one sidebar widget: the script reruns, the button reads False.
ChangeWidget ==
    /\ Idle /\ CanRun
    /\ \E f \in WidgetNames : \E v \in SessionChoices[f] \ {widgets[f]} :
          widgets' = [widgets EXCEPT ![f] = v]
    /\ button' = FALSE
    /\ last' = NoLast
    /\ BeginRun
    /\ UNCHANGED <<artifact, cache, loadCalls>>

\* The user clicks "Predict Churn": the script reruns, the button reads True.
ClickPredict ==
    /\ Idle /\ CanRun
    /\ button' = TRUE
    /\ last' = IF pc = "done" /\ button THEN Snapshot ELSE NoLast
    /\ BeginRun
    /\ UNCHANGED <<widgets, artifact, cache, loadCalls>>

\* The file on disk is replaced, removed or damaged between runs.
ArtifactChange ==
    /\ Idle
    /\ \E a \in {"present", "missing", "corrupt"} \ {artifact} : artifact' = a
    /\ UNCHANGED <<widgets, cache, loadCalls, pc, button, model, feature_vector,
                   prediction, prediction_proba, risk_factors, recommendations,
                   out, trace, loadFailed, last>>

\* model = load_model(), a cache hit: the stored value, the body does not run.
\* Whether the st.error of the cached call is replayed depends on the
\* Streamlit release, so both outcomes are followed.
LoadModelCached ==
    /\ pc = "load" /\ cache # "empty"
    /\ model' = cache
    /\ \E replay \in BOOLEAN :
          out' = IF cache = "None" /\ replay THEN Append(out, "load_error") ELSE out
    /\ pc' = "check"
    /\ UNCHANGED <<widgets, artifact, cache, loadCalls, button, feature_vector,
                   prediction, prediction_proba, risk_factors, recommendations,
                   trace, loadFailed, last>>

\* model = load_model(), a cache miss with the file readable: joblib.load
\* returns the classifier, which is stored and returned.
LoadModelOk ==
    /\ pc = "load" /\ cache = "empty" /\ artifact = "present"
    /\ loadCalls' = loadCalls + 1
    /\ \E h \in Classifiers : cache' = h /\ model' = h
    /\ pc' = "check"
    /\ UNCHANGED <<widgets, artifact, button, feature_vector, prediction,
                   prediction_proba, risk_factors, recommendations, out, trace,
                   loadFailed, last>>

\* A cache miss with no file: FileNotFoundError is caught, st.error is shown
\* and None is returned, and stored like any return value.
LoadModelMissing ==
    /\ pc = "load" /\ cache = "empty" /\ artifact = "missing"
    /\ loadCalls' = loadCalls + 1
    /\ out' = Append(out, "load_error")
    /\ cache' = "None"
    /\ model' = "None"
    /\ loadFailed' = "missing"
    /\ pc' = "check"
    /\ UNCHANGED <<widgets, artifact, button, feature_vector, prediction,
                   prediction_proba, risk_factors, recommendations, trace, last>>

\* A cache miss with a file joblib cannot read: the exception is not a
\* FileNotFoundError, so it leaves load_model and main(); nothing is stored
\* and the run ends with the exception on the page.
LoadModelUnreadable ==
    /\ pc = "load" /\ cache = "empty" /\ artifact = "corrupt"
    /\ loadCalls' = loadCalls + 1
    /\ out' = Append(out, "exception")
    /\ loadFailed' = "unreadable"
    /\ pc' = "crashed"
    /\ UNCHANGED <<widgets, artifact, cache, button, model, feature_vector,
                   prediction, prediction_proba, risk_factors, recommendations,
                   trace, last>>

\* if model is None: st.stop()
CheckModel ==
    /\ pc = "check"
    /\ pc' = IF model = "None" THEN "stopped" ELSE "sidebar"
    /\ UNCHANGED <<widgets, artifact, cache, loadCalls, button, model,
                   feature_vector, prediction, prediction_proba, risk_factors,
                   recommendations, out, trace, loadFailed, last>>

\* The sidebar widgets are drawn and read, then the button is tested.
Sidebar ==
    /\ pc = "sidebar"
    /\ out' = Append(out, "sidebar")
    /\ pc' = IF button THEN ScriptOrder[1] ELSE "welcome"
    /\ UNCHANGED <<widgets, artifact, cache, loadCalls, button, model,
                   feature_vector, prediction, prediction_proba, risk_factors,
                   recommendations, trace, loadFailed, last>>

Welcome ==
    /\ pc = "welcome"
    /\ out' = Append(out, "welcome")
    /\ pc' = "done"
    /\ UNCHANGED <<widgets, artifact, cache, loadCalls, button, model,
                   feature_vector, prediction, prediction_proba, risk_factors,
                   recommendations, trace, loadFailed, last>>

\* feature_vector = create_feature_vector(input_data)
Encode ==
    /\ pc = "encode"
    /\ feature_vector' = create_feature_vector(InputData(widgets))
    /\ trace' = Append(trace, "encode")
    /\ pc' = After("encode")
    /\ UNCHANGED <<widgets, artifact, cache, loadCalls, button, model, prediction,
                   prediction_proba, risk_factors, recommendations, out,
                   loadFailed, last>>

\* prediction = model.predict(feature_vector)[0]
PredictStep ==
    /\ pc = "predict"
    /\ trace' = Append(trace, "predict")
    /\ IF PredictRaises(model, feature_vector)
       THEN /\ pc' = "crashed"
            /\ out' = Append(out, "exception")
            /\ UNCHANGED prediction
       ELSE /\ pc' = After("predict")
            /\ prediction' = Predict(model, feature_vector)
            /\ UNCHANGED out
    /\ UNCHANGED <<widgets, artifact, cache, loadCalls, button, model,
                   feature_vector, prediction_proba, risk_factors,
                   recommendations, loadFailed, last>>

\* prediction_proba = model.predict_proba(feature_vector)[0]
PredictProbaStep ==
    /\ pc = "predict_proba"
    /\ trace' = Append(trace, "predict_proba")
    /\ IF ProbaRaises(model, feature_vector)
       THEN /\ pc' = "crashed"
            /\ out' = Append(out, "exception")
            /\ UNCHANGED prediction_proba
       ELSE /\ pc' = After("predict_proba")
            /\ prediction_proba' = PredictProba(model, feature_vector)
            /\ UNCHANGED out
    /\ UNCHANGED <<widgets, artifact, cache, loadCalls, button, model,
                   feature_vector, prediction, risk_factors, recommendations,
                   loadFailed, last>>

\* The HIGH / LOW CHURN RISK box with the probability.
PredictionBox ==
    /\ pc = "prediction_box"
    /\ out' = Append(out, "prediction_box")
    /\ pc' = After("prediction_box")
    /\ UNCHANGED <<widgets, artifact, cache, loadCalls, button, model,
                   feature_vector, prediction, prediction_proba, risk_factors,
                   recommendations, trace, loadFailed, last>>

\* The customer-versus-average bar chart.
ProfileChart ==
    /\ pc = "profile_chart"
    /\ out' = Append(out, "profile_chart")
    /\ pc' = After("profile_chart")
    /\ UNCHANGED <<widgets, artifact, cache, loadCalls, button, model,
                   feature_vector, prediction, prediction_proba, risk_factors,
                   recommendations, trace, loadFailed, last>>

\* The seven rules on the widget values, then the list (or the all-clear).
RiskFactors ==
    /\ pc = "risk"
    /\ risk_factors' = AssessRisk(widgets)
    /\ trace' = Append(trace, "assess")
    /\ out' = Append(out, "risk_factors")
    /\ pc' = After("risk")
    /\ UNCHANGED <<widgets, artifact, cache, loadCalls, button, model,
                   feature_vector, prediction, prediction_proba, recommendations,
                   loadFailed, last>>

\* One of the two lists, by `prediction == 1`, written out item by item.
Recommendations ==
    /\ pc = "recommend"
    /\ recommendations' = Recommend(prediction)
    /\ trace' = Append(trace, "recommend")
    /\ out' = Append(out, "recommendations")
    /\ pc' = After("recommend")
    /\ UNCHANGED <<widgets, artifact, cache, loadCalls, button, model,
                   feature_vector, prediction, prediction_proba, risk_factors,
                   loadFailed, last>>

\* The probability gauge, the last statement of the branch.
Gauge ==
    /\ pc = "gauge"
    /\ out' = Append(out, "gauge")
    /\ pc' = After("gauge")
    /\ UNCHANGED <<widgets, artifact, cache, loadCalls, button, model,
                   feature_vector, prediction, prediction_proba, risk_factors,
                   recommendations, trace, loadFailed, last>>

Next ==
    \/ ChangeWidget \/ ClickPredict \/ ArtifactChange
    \/ LoadModelCached \/ LoadModelOk \/ LoadModelMissing \/ LoadModelUnreadable
    \/ CheckModel \/ Sidebar \/ Welcome
    \/ Encode \/ PredictStep \/ PredictProbaStep \/ PredictionBox \/ ProfileChart
    \/ RiskFactors \/ Recommendations \/ Gauge

Spec == Init /\ [][Next]_vars

\* ------------------------------------------- the pure functions on their own

\* The encoder and the risk rules applied to each profile of CoreProfiles.
InitCore ==
    /\ widgets \in CoreProfiles
    /\ artifact = "present"
    /\ cache = "empty"
    /\ loadCalls = 0
    /\ pc = "apply_encode"
    /\ button = TRUE
    /\ model = "unset"
    /\ feature_vector = << >>
    /\ prediction \in {0, 1}     \* the label in scope when the risk rules run
    /\ prediction_proba = -1
    /\ risk_factors = << >>
    /\ recommendations = << >>
    /\ out = << >>
    /\ trace = << >>
    /\ loadFailed = "no"
    /\ last = NoLast

CoreEncode ==
    /\ pc = "apply_encode"
    /\ feature_vector' = create_feature_vector(InputData(widgets))
    /\ pc' = "apply_risk"
    /\ UNCHANGED <<widgets, artifact, cache, loadCalls, button, model, prediction,
                   prediction_proba, risk_factors, recommendations, out, trace,
                   loadFailed, last>>

CoreAssessRisk ==
    /\ pc = "apply_risk"
    /\ risk_factors' = AssessRisk(widgets)
    /\ pc' = "applied"
    /\ UNCHANGED <<widgets, artifact, cache, loadCalls, button, model,
                   feature_vector, prediction, prediction_proba, recommendations,
                   out, trace, loadFailed, last>>

NextCore == CoreEncode \/ CoreAssessRisk

SpecCore == InitCore /\ [][NextCore]_vars

\* ------------------------------------------------------------------ claims

Range(s) == {s[i] : i \in 1..Len(s)}
IsPrefix(s, t) == Len(s) <= Len(t) /\ \A i \in 1..Len(s) : s[i] = t[i]
\* A fraction to three decimals, rounded half up, in thousandths.
Milli(v) == (2000 * v.num + v.den) \div (2 * v.den)
Ones(fv, names) == Cardinality({n \in names : Get(fv, n).num = 1})

ResultElements == {"prediction_box", "risk_factors", "recommendations", "gauge"}

\* C1: whenever the load of the model artifact fails (file missing or
\* unreadable) the run does not crash: it shows the model-unavailable
\* diagnostic and halts, and in that run neither the encoder nor the model
\* call is invoked.
C1_LoadFailureHalts ==
    loadFailed # "no" =>
        /\ pc # "crashed"
        /\ "exception" \notin Range(out)
        /\ "load_error" \in Range(out)
        /\ pc \in {"check", "stopped"}
        /\ trace = << >>

Scenario1 ==
    [credit_score |-> 650, gender |-> "Male", age |-> 35, tenure |-> 5,
     balance |-> 50000, products_number |-> 2, credit_card |-> TRUE,
     active_member |-> TRUE, estimated_salary |-> 60000, country |-> "France"]

\* What the encoder and the risk rules give for scenario 1, apart from the
\* age-group fields.
Scenario1Fields ==
    /\ Get(feature_vector, "balance_salary_ratio").num * 60000
         = 50000 * Get(feature_vector, "balance_salary_ratio").den
    /\ Milli(Get(feature_vector, "balance_salary_ratio")) = 833
    /\ Get(feature_vector, "high_balance") = [num |-> 0, den |-> 1]
    /\ Get(feature_vector, "active_credit_combo") = [num |-> 1, den |-> 1]
    /\ Get(feature_vector, "products_per_year").num * 5
         = 2 * Get(feature_vector, "products_per_year").den
    /\ Milli(Get(feature_vector, "products_per_year")) = 400
    /\ Get(feature_vector, "tenure_group_Medium") = [num |-> 1, den |-> 1]
    /\ risk_factors = << >>

\* C2 (as stated): for the profile of scenario 1 the encoder yields
\* balance_salary_ratio = 50000/60000 (0.833), high_balance = 0,
\* active_credit_combo = 1, products_per_year = 2/5 (0.4),
\* tenure_group_Medium = 1 and all four age_group_* = 0, and the risk rules
\* trigger no risk factor.
C2_Scenario1_AllAgeGroupsZero ==
    (widgets = Scenario1 /\ pc = "applied") =>
        /\ Scenario1Fields
        /\ \A n \in {"age_group_31-40", "age_group_41-50", "age_group_51-60",
                     "age_group_60+"} :
              Get(feature_vector, n) = [num |-> 0, den |-> 1]

\* C2 (amended): for the profile of scenario 1 the encoder yields
\* balance_salary_ratio = 50000/60000 (0.833), high_balance = 0,
\* active_credit_combo = 1, products_per_year = 2/5 (0.4),
\* tenure_group_Medium = 1, age_group_31-40 = 1 (age 35) and the other three
\* age_group_* = 0, and the risk rules trigger no risk factor.
C2_Scenario1 ==
    (widgets = Scenario1 /\ pc = "applied") =>
        /\ Scenario1Fields
        /\ Get(feature_vector, "age_group_31-40") = [num |-> 1, den |-> 1]
        /\ \A n \in {"age_group_41-50", "age_group_51-60", "age_group_60+"} :
              Get(feature_vector, n) = [num |-> 0, den |-> 1]

C2_Witness == widgets = Scenario1 /\ pc = "applied" /\ Len(feature_vector) > 0

\* C3: for every valid profile the encoder returns exactly these 21 fields,
\* with these names and in this order, whatever the input values.
C3_FixedColumns ==
    pc \in {"apply_risk", "applied"} =>
        /\ Len(feature_vector) = 21
        /\ Columns(feature_vector) =
             << "credit_score", "gender", "age", "tenure", "balance",
                "products_number", "credit_card", "active_member",
                "estimated_salary", "country_Germany", "country_Spain",
                "balance_salary_ratio", "high_balance", "active_credit_combo",
                "products_per_year", "age_group_31-40", "age_group_41-50",
                "age_group_51-60", "age_group_60+", "tenure_group_Medium",
                "tenure_group_High" >>

C3_Witness ==
    /\ pc = "applied" /\ Len(feature_vector) = 21
    /\ widgets.age = 30 /\ widgets.tenure = 0 /\ widgets.country = "France"
    /\ widgets.estimated_salary = 0

\* C4: in each one-hot group of the encoded vector at most one field is 1
\* (the four age_group_*, the two tenure_group_*, the two country_*), and a
\* group is all zero exactly for its baseline: age <= 30, tenure <= 2,
\* country = France.
C4_OneHot ==
    pc \in {"apply_risk", "applied"} =>
        LET ages == Ones(feature_vector, {"age_group_31-40", "age_group_41-50",
                                          "age_group_51-60", "age_group_60+"})
            tenures == Ones(feature_vector, {"tenure_group_Medium", "tenure_group_High"})
            countries == Ones(feature_vector, {"country_Germany", "country_Spain"})
        IN  /\ ages <= 1 /\ tenures <= 1 /\ countries <= 1
            /\ (ages = 0) <=> (widgets.age <= 30)
            /\ (tenures = 0) <=> (widgets.tenure <= 2)
            /\ (countries = 0) <=> (widgets.country = "France")
            /\ \A n \in {"age_group_31-40", "age_group_41-50", "age_group_51-60",
                         "age_group_60+", "tenure_group_Medium", "tenure_group_High",
                         "country_Germany", "country_Spain"} :
                  Get(feature_vector, n) \in {[num |-> 0, den |-> 1], [num |-> 1, den |-> 1]}

C4_Witness ==
    /\ pc = "applied"
    /\ widgets.age = 40 /\ widgets.tenure = 7 /\ widgets.country = "Spain"
    /\ Get(feature_vector, "age_group_31-40").num = 1
    /\ Get(feature_vector, "tenure_group_Medium").num = 1
    /\ Get(feature_vector, "country_Spain").num = 1

\* C5: the encoder never divides by zero: with estimated_salary = 0 the
\* field balance_salary_ratio is 0 and with tenure = 0 the field
\* products_per_year is 0; otherwise the fields are balance / estimated_salary
\* and products_number / tenure.
C5_GuardedDivision ==
    pc \in {"apply_risk", "applied"} =>
        LET r == Get(feature_vector, "balance_salary_ratio")
            y == Get(feature_vector, "products_per_year")
        IN  /\ r.den > 0 /\ y.den > 0
            /\ widgets.estimated_salary = 0 => r.num = 0
            /\ widgets.estimated_salary # 0 =>
                  /\ widgets.estimated_salary % r.den = 0
                  /\ r.num * (widgets.estimated_salary \div r.den) = widgets.balance
            /\ widgets.tenure = 0 => y.num = 0
            /\ widgets.tenure # 0 => y.num * widgets.tenure = widgets.products_number * y.den

C5_Witness ==
    /\ pc = "applied"
    /\ widgets.estimated_salary = 0 /\ widgets.balance = 100001
    /\ widgets.tenure = 0 /\ widgets.products_number = 4
    /\ Get(feature_vector, "balance_salary_ratio").num = 0
    /\ Get(feature_vector, "products_per_year").num = 0

RiskPriority ==
    << "High age group", "Zero balance", "Single product", "Inactive member",
       "No credit card", "Low tenure", "Low credit score" >>

RuleHolds(l, w) ==
    CASE l = "High age group" -> w.age > 50
      [] l = "Zero balance" -> w.balance = 0
      [] l = "Single product" -> w.products_number = 1
      [] l = "Inactive member" -> ~w.active_member
      [] l = "No credit card" -> ~w.credit_card
      [] l = "Low tenure" -> w.tenure < 2
      [] l = "Low credit score" -> w.credit_score < 600

\* C6: the risk-factor list holds a label exactly when its rule holds on the
\* raw profile, each at most once and in the fixed priority order, whatever
\* the predicted label; all seven rules give all seven labels in that order,
\* no rule gives the empty list.
C6_RiskFactors ==
    pc = "applied" =>
        /\ \A l \in Range(RiskPriority) :
              (l \in Range(risk_factors)) <=> RuleHolds(l, widgets)
        /\ Range(risk_factors) \subseteq Range(RiskPriority)
        /\ \A i, j \in 1..Len(risk_factors) :
              i < j => \E a, b \in 1..7 :
                          /\ a < b
                          /\ RiskPriority[a] = risk_factors[i]
                          /\ RiskPriority[b] = risk_factors[j]
        /\ (\A l \in Range(RiskPriority) : RuleHolds(l, widgets))
              => risk_factors = RiskPriority
        /\ (\A l \in Range(RiskPriority) : ~RuleHolds(l, widgets))
              => risk_factors = << >>

C6_Witness ==
    /\ pc = "applied" /\ prediction = 0
    /\ widgets.age = 55 /\ widgets.balance = 0 /\ widgets.products_number = 1
    /\ ~widgets.active_member /\ ~widgets.credit_card
    /\ widgets.tenure = 1 /\ widgets.credit_score = 550
    /\ Len(risk_factors) = 7

\* C7: the recommendation list is one of two fixed 4-item lists chosen by the
\* predicted label alone: the retention-campaign list when prediction = 1,
\* the regular-engagement list for any other value; never empty, never mixed.
C7_Recommendations ==
    (button /\ pc \in {"gauge", "done"}) =>
        /\ Len(recommendations) = 4
        /\ prediction = 1 =>
              recommendations = << "Offer personalized retention campaign",
                                   "Provide premium customer service",
                                   "Consider product bundle offers",
                                   "Implement targeted engagement strategies" >>
        /\ prediction # 1 =>
              recommendations = << "Continue regular engagement",
                                   "Offer product upgrades",
                                   "Maintain service quality",
                                   "Monitor for any changes" >>

C7_Witness ==
    /\ button /\ pc = "done" /\ prediction = 2
    /\ recommendations[1] = "Continue regular engagement"

\* C8: across any sequence of reruns and prediction requests the model
\* artifact is loaded at most once, and every request observes the cached
\* outcome of that one load.
C8_LoadedAtMostOnce ==
    /\ loadCalls <= 1
    /\ model # "unset" => model = cache

\* C9: two consecutive prediction runs with an identical profile and the same
\* model give identical results: feature vector, label, probability,
\* risk-factor list and recommendation list.
C9_Idempotent ==
    (button /\ pc = "done" /\ last.set /\ last.profile = widgets /\ last.model = model) =>
        /\ feature_vector = last.feature_vector
        /\ prediction = last.prediction
        /\ prediction_proba = last.prediction_proba
        /\ risk_factors = last.risk_factors
        /\ recommendations = last.recommendations

C9_Witness ==
    /\ button /\ pc = "done" /\ last.set /\ last.profile = widgets
    /\ last.model = model /\ Len(risk_factors) >= 2 /\ prediction = 1

\* C10: in every prediction request the steps run in the order encode,
\* predict, assess risk, recommend, each at most once; when the model call
\* fails the request ends there and no part of the result has been rendered.
C10_OrderAndNoPartialResult ==
    /\ IsPrefix(trace, << "encode", "predict", "predict_proba", "assess", "recommend" >>)
    /\ (pc = "crashed" /\ loadFailed = "no") =>
          /\ Range(out) \cap ResultElements = {}
          /\ trace \in {<< "encode", "predict" >>, << "encode", "predict", "predict_proba" >>}
          /\ risk_factors = << >> /\ recommendations = << >>
    /\ "risk_factors" \in Range(out) => prediction_proba # -1
    /\ "prediction_box" \in Range(out) => prediction_proba # -1

C10_Witness ==
    /\ pc = "crashed" /\ loadFailed = "no"
    /\ trace = << "encode", "predict", "predict_proba" >>
    /\ prediction = 1

====
